---------------------------- MODULE Spec2Model ----------------------------
(***************************************************************************)
(* A model of model.py of PaiConv: the k-nearest-neighbour indexer (knn),  *)
(* the kernel-point generator (fibonacci_sphere), the soft assignment      *)
(* builder (PaiIndexMatrix), the aggregation layer (PaiConv) and the       *)
(* network assemblers (PaiNet, DGCNN, PointNet).                           *)
(*                                                                         *)
(* Numbers.  Point coordinates are small integers (exactly representable   *)
(* floats).  The kernel anchors are irrational; they are computed by the   *)
(* formulas of fibonacci_sphere in fixed point with resolution 1/FScale.   *)
(* The assignment matrix is computed in exact rational arithmetic over     *)
(* arbitrary-size naturals, because 1e-6 cubed does not fit a TLC integer. *)
(* Tensors are functions over 0-based index ranges, as in the source.      *)
(***************************************************************************)
EXTENDS Integers, Sequences, FiniteSets, TLC

(***************************************************************************)
(* Bounds of the model.                                                    *)
(***************************************************************************)
MaxBatch == 2
MaxPoints == 3
MaxTotal == 4
MaxK == 3
MaxKernel == 3
MaxPointId == 3
MaxCells == 6
MaxEntry == 3
MaxSamples == 6
MaxDraw == 3
MaxChan == 2

(***************************************************************************)
(* Arbitrary-size naturals: little-endian sequences of limbs in base       *)
(* Base, without high zero limbs, so that equal numbers are equal values.  *)
(***************************************************************************)
Base == 10 * 10 * 10

RECURSIVE BNat(_)
BNat(n) == IF n = 0 THEN << >> ELSE <<n % Base>> \o BNat(n \div Base)

BHd(a) == IF a = << >> THEN 0 ELSE Head(a)
BTl(a) == IF a = << >> THEN << >> ELSE Tail(a)

RECURSIVE BAddC(_, _, _)
BAddC(a, b, c) ==
    IF a = << >> /\ b = << >>
    THEN BNat(c)
    ELSE IF c = 0 /\ a = << >> THEN b
    ELSE IF c = 0 /\ b = << >> THEN a
    ELSE LET s == BHd(a) + BHd(b) + c
         IN  <<s % Base>> \o BAddC(BTl(a), BTl(b), s \div Base)

BAdd(a, b) == IF a = << >> THEN b ELSE IF b = << >> THEN a ELSE BAddC(a, b, 0)

RECURSIVE BMulLimb(_, _, _)
BMulLimb(a, m, c) ==
    IF a = << >>
    THEN BNat(c)
    ELSE LET s == Head(a) * m + c
         IN  <<s % Base>> \o BMulLimb(Tail(a), m, s \div Base)

BShift(a) == IF a = << >> THEN << >> ELSE <<0>> \o a

RECURSIVE BMul(_, _)
BMul(a, b) ==
    IF a = << >> \/ b = << >>
    THEN << >>
    ELSE IF a = <<1>> THEN b
    ELSE IF b = <<1>> THEN a
    ELSE LET lo == IF Head(b) = 0 THEN << >>
                   ELSE IF Head(b) = 1 THEN a
                   ELSE BMulLimb(a, Head(b), 0)
         IN  BAdd(lo, BShift(BMul(a, Tail(b))))

RECURSIVE BLessFrom(_, _, _)
BLessFrom(a, b, i) ==
    IF i = 0 THEN FALSE
    ELSE IF a[i] # b[i] THEN a[i] < b[i]
    ELSE BLessFrom(a, b, i - 1)

BLess(a, b) ==
    IF Len(a) # Len(b) THEN Len(a) < Len(b) ELSE BLessFrom(a, b, Len(a))

BLeq(a, b) == ~BLess(b, a)

(***************************************************************************)
(* Non-negative rationals n/d, d > 0.                                      *)
(***************************************************************************)
RECURSIVE RNorm(_)
\* n/d with the common low zero limbs (a common power of Base) cancelled
RNorm(p) ==
    IF p.n # << >> /\ Head(p.n) = 0 /\ Head(p.d) = 0
    THEN RNorm([n |-> Tail(p.n), d |-> Tail(p.d)])
    ELSE p

Rat(n, d) == [n |-> BNat(n), d |-> BNat(d)]
RZero == Rat(0, 1)
ROne == Rat(1, 1)
RIsZero(p) == p.n = << >>
RAdd(p, q) ==
    IF p.d = q.d THEN [n |-> BAdd(p.n, q.n), d |-> p.d]
    ELSE RNorm([n |-> BAdd(BMul(p.n, q.d), BMul(q.n, p.d)), d |-> BMul(p.d, q.d)])
RMul(p, q) == [n |-> BMul(p.n, q.n), d |-> BMul(p.d, q.d)]
\* p / q for q > 0
RDiv(p, q) == RNorm([n |-> BMul(p.n, q.d), d |-> BMul(p.d, q.n)])
RLess(p, q) == BLess(BMul(p.n, q.d), BMul(q.n, p.d))
RLeq(p, q) == ~RLess(q, p)

(***************************************************************************)
(* Fixed-point reals with resolution 1/FScale, for the kernel anchors.     *)
(* sqrt, cos and sin of the math library are computed to that resolution.  *)
(***************************************************************************)
FScale == 10 * 10 * 10
PiF == 3142

\* division truncating toward zero
TDiv(a, b) == IF a >= 0 THEN a \div b ELSE -((-a) \div b)

FMul(a, b) == TDiv(a * b, FScale)

RECURSIVE SqrtBis(_, _, _)
\* the largest r in lo..hi with r*r <= n, given lo*lo <= n < (hi+1)*(hi+1)
SqrtBis(n, lo, hi) ==
    IF lo >= hi THEN lo
    ELSE LET mid == (lo + hi + 1) \div 2
         IN  IF mid * mid <= n THEN SqrtBis(n, mid, hi) ELSE SqrtBis(n, lo, mid - 1)

\* math.sqrt of the fixed-point a, 0 <= a <= 9
FSqrt(a) == SqrtBis(a * FScale, 0, 3 * FScale)

RECURSIVE Series(_, _, _, _)
\* term - term*t2/(j(j+1)) + ... : the alternating power series, `terms` terms
Series(term, t2, j, terms) ==
    IF terms = 0 THEN 0
    ELSE term + Series(-TDiv(FMul(term, t2), j * (j + 1)), t2, j + 2, terms - 1)

\* the angle a >= 0 reduced to -pi..pi
Reduce(a) ==
    LET t == a % (2 * PiF)
    IN  IF t > PiF THEN t - 2 * PiF ELSE t

FCos(a) == LET t == Reduce(a) IN Series(FScale, FMul(t, t), 1, 10)
FSin(a) == LET t == Reduce(a) IN Series(t, FMul(t, t), 2, 10)

(***************************************************************************)
(* fibonacci_sphere(samples, randomize).  u is the value random.random()   *)
(* returns (fixed point, 0 <= u < FScale); it is read only when randomize. *)
(* The result is the Python list `points` as a sequence: element i of the  *)
(* list is points[i + 1].  Coordinates are fixed point.                    *)
(***************************************************************************)
\* rnd drawn from the random source whether randomize is set or not
fs_rnd_always(samples, randomize, u) == u * samples

fs_rnd(samples, randomize, u) == IF randomize THEN u * samples ELSE FScale

fs_offset(samples) == (2 * FScale) \div samples

fs_increment == FMul(PiF, 3 * FScale - FSqrt(5 * FScale))

fs_point(samples, rnd, i) ==
    LET offset == fs_offset(samples)
        y == ((i * offset) - FScale) + (offset \div 2)
        r == FSqrt(FScale - FMul(y, y))
        phi == FMul((i * FScale + rnd) % (samples * FScale), fs_increment)
        xx == FMul(FCos(phi), r)
        z == FMul(FSin(phi), r)
    IN  <<xx, y, z>>

RECURSIVE fs_loop(_, _, _, _)
\* for i in range(samples-1): points.append(...), from iteration i on
fs_loop(samples, rnd, i, points) ==
    IF i >= samples - 1 THEN points
    ELSE fs_loop(samples, rnd, i + 1, Append(points, fs_point(samples, rnd, i)))

fibonacci_sphere(samples, randomize, u) ==
    fs_loop(samples, fs_rnd(samples, randomize, u), 0, << <<0, 0, 0>> >>)

(***************************************************************************)
(* Tensors.  A point cloud x of shape (bsize, 3, num_pts) is a function    *)
(* x[b][c][n] over 0-based ranges.                                         *)
(***************************************************************************)
Rng(n) == 0 .. (n - 1)
Feats == 3
x_bsize(xv) == Cardinality(DOMAIN xv)
x_num_pts(xv) == Cardinality(DOMAIN xv[0][0])

\* the candidate input points: the corners of the unit cube, by number
PointAt(id) == <<id % 2, (id \div 2) % 2, (id \div 4) % 2>>

\* the cloud of shape (B, 3, N) whose point n of batch b is candidate ids[b][n]
Cloud(ids, B, N) ==
    [b \in Rng(B) |-> [c \in Rng(Feats) |-> [n \in Rng(N) |-> PointAt(ids[b][n])[c + 1]]]]

Dot3(f, g) == f[0] * g[0] + f[1] * g[1] + f[2] * g[2]

(***************************************************************************)
(* knn(x, k).  topk returns the indices of the k largest values of each    *)
(* row in descending order of value; the order among equal values is not   *)
(* specified by the routine.  tie is the order the build's routine uses:   *)
(* among equal values position j comes before j2 iff tie[j] < tie[j2].     *)
(* Two routines are modelled: lowest index first, highest index first.     *)
(* topk raises when k exceeds the size of the dimension: ok is FALSE.       *)
(***************************************************************************)

TieOrders(N) == { [j \in Rng(N) |-> j], [j \in Rng(N) |-> N - 1 - j] }

knn_inner(xv, b, i, j) ==
    -2 * Dot3([c \in Rng(Feats) |-> xv[b][c][i]], [c \in Rng(Feats) |-> xv[b][c][j]])

knn_xx(xv, b, j) == Dot3([c \in Rng(Feats) |-> xv[b][c][j]], [c \in Rng(Feats) |-> xv[b][c][j]])

pairwise_distance(xv, b, i, j) == -knn_xx(xv, b, j) - knn_inner(xv, b, i, j) - knn_xx(xv, b, i)

\* j comes before j2 in the descending order of the row v
TopkBefore(v, tie, j, j2) == v[j] > v[j2] \/ (v[j] = v[j2] /\ tie[j] < tie[j2])

TopkRank(v, tie, j) == Cardinality({ j2 \in DOMAIN v : TopkBefore(v, tie, j2, j) })

\* topk(k)[1] of one row: position m holds the index of rank m
topk(v, k, tie) == [m \in Rng(k) |-> CHOOSE j \in DOMAIN v : TopkRank(v, tie, j) = m]

\* knn that pads the neighbour list with the last point instead of raising
knn_padded(xv, k, tie) ==
    LET B == x_bsize(xv)
        N == x_num_pts(xv)
        kk == IF k > N THEN N ELSE k
    IN  [ok |-> TRUE,
         idx |-> [b \in Rng(B) |-> [i \in Rng(N) |->
                    LET t == topk([j \in Rng(N) |-> pairwise_distance(xv, b, i, j)], kk, tie)
                    IN  [m \in Rng(k) |-> IF m < kk THEN t[m] ELSE t[kk - 1]]]]]

knn(xv, k, tie) ==
    LET B == x_bsize(xv)
        N == x_num_pts(xv)
    IN  IF k > N THEN [ok |-> FALSE]
        ELSE [ok |-> TRUE,
              idx |-> [b \in Rng(B) |-> [i \in Rng(N) |->
                         topk([j \in Rng(N) |-> pairwise_distance(xv, b, i, j)], k, tie)]]]

(***************************************************************************)
(* PaiIndexMatrix.__init__: the kernel anchors (3 x kernel_size, fixed     *)
(* point) and the bias matrix one_padding (k x kernel_size).  A list that  *)
(* holds only the integer origin [0, 0, 0] makes an integer tensor.        *)
(***************************************************************************)
init_kernels(K) ==
    LET pts == fibonacci_sphere(K, FALSE, 0)
    IN  [c \in Rng(Feats) |-> [j \in Rng(K) |-> pts[j + 1][c + 1]]]

init_kernels_dtype(K) == IF K = 1 THEN "int64" ELSE "float32"

\* one_padding without the assignment one_padding.data[0, 0] = 1
init_one_padding_zero(k, K) == [m \in Rng(k) |-> [j \in Rng(K) |-> 0]]

init_one_padding(k, K) ==
    [m \in Rng(k) |-> [j \in Rng(K) |-> IF m = 0 /\ j = 0 THEN FScale ELSE 0]]

(***************************************************************************)
(* PaiIndexMatrix.topkmax on a (points, k, kernel_size) tensor of          *)
(* non-negative rationals: dim 1 is the neighbour dimension.               *)
(***************************************************************************)
EpsDen == 1000000
ThreshDen == 10
Eps == Rat(1, EpsDen)
Thresh == Rat(1, ThreshDen)

\* p / (s + 1e-6); when p and s have the same denominator it cancels
DivEps(p, s) ==
    IF p.d = s.d
    THEN [n |-> BMul(p.n, Eps.d), d |-> BAdd(BMul(s.n, Eps.d), BMul(s.d, Eps.n))]
    ELSE RDiv(p, RAdd(s, Eps))

RECURSIVE SumDim1(_, _, _, _)
\* the sum of pm[q][m2][j] over m2 < m
SumDim1(pm, q, j, m) ==
    IF m = 0 THEN RZero
    ELSE IF m = 1 THEN pm[q][0][j]
    ELSE RAdd(SumDim1(pm, q, j, m - 1), pm[q][m - 1][j])

RECURSIVE SumDim2(_, _, _, _)
\* the sum of pm[q][m][j2] over j2 < j
SumDim2(pm, q, m, j) ==
    IF j = 0 THEN RZero
    ELSE IF j = 1 THEN pm[q][m][0]
    ELSE RAdd(SumDim2(pm, q, m, j - 1), pm[q][m][j - 1])

\* the normalisation over dim 2 (the kernel anchors) instead of dim 1
NormDim2(pm) ==
    LET k == Cardinality(DOMAIN pm[0])
        K == Cardinality(DOMAIN pm[0][0])
        sum == [q \in DOMAIN pm |-> [m \in Rng(k) |-> SumDim2(pm, q, m, K)]]
    IN  [q \in DOMAIN pm |-> [m \in Rng(k) |-> [j \in Rng(K) |-> DivEps(pm[q][m][j], sum[q][m])]]]

NormDim1(pm) ==
    LET k == Cardinality(DOMAIN pm[0])
        K == Cardinality(DOMAIN pm[0][0])
        sum == [q \in DOMAIN pm |-> [j \in Rng(K) |-> SumDim1(pm, q, j, k)]]
    IN  [q \in DOMAIN pm |-> [m \in Rng(k) |-> [j \in Rng(K) |-> DivEps(pm[q][m][j], sum[q][j])]]]

Square(pm) ==
    [q \in DOMAIN pm |-> [m \in DOMAIN pm[q] |-> [j \in DOMAIN pm[q][m] |->
        RMul(pm[q][m][j], pm[q][m][j])]]]

\* topkmax without the 0.1 threshold
Threshold_none(pm) == pm

Threshold(pm) ==
    [q \in DOMAIN pm |-> [m \in DOMAIN pm[q] |-> [j \in DOMAIN pm[q][m] |->
        IF RLess(Thresh, pm[q][m][j]) THEN pm[q][m][j] ELSE RZero]]]

topkmax(pm) == Threshold(NormDim1(Square(NormDim1(pm))))

(***************************************************************************)
(* PaiIndexMatrix.forward(x).                                              *)
(***************************************************************************)
\* (spirals_index + idx_base).view(-1)
\* mutant: the base offset of batch element b is b, not b * num_pts
FlatIndex_unscaled(idx, B, N, k) ==
    [f \in Rng(B * N * k) |-> idx[f \div (N * k)][(f \div k) % N][f % k] + f \div (N * k)]

FlatIndex(idx, B, N, k) ==
    [f \in Rng(B * N * k) |->
        LET b == f \div (N * k)
            i == (f \div k) % N
            m == f % k
        IN  idx[b][i][m] + b * N]

\* x.permute(0, 2, 1).contiguous().view(bsize*num_pts, feats)
FlatPoints(xv, B, N) == [q \in Rng(B * N) |-> [c \in Rng(Feats) |-> xv[q \div N][c][q % N]]]

\* spirals[spirals_index, :].view(bsize*num_pts, k, feats)
Gather(pts, flat, BN, k) == [q \in Rng(BN) |-> [m \in Rng(k) |-> pts[flat[q * k + m]]]]

Relative(spirals) ==
    [q \in DOMAIN spirals |-> [m \in DOMAIN spirals[q] |-> [c \in Rng(Feats) |->
        spirals[q][m][c] - spirals[q][0][c]]]]

\* matmul(x_relative, kernels) + one_padding, negative entries replaced by 0
RawMatrix(rel, kern, pad, K) ==
    [q \in DOMAIN rel |-> [m \in DOMAIN rel[q] |-> [j \in Rng(K) |->
        LET a == Dot3(rel[q][m], [c \in Rng(Feats) |-> kern[c][j]]) + pad[m][j]
        IN  IF a > 0 THEN Rat(a, FScale) ELSE Rat(0, FScale)]]]

pim_forward(xv, k, K, kern, kdtype, pad, tie) ==
    LET B == x_bsize(xv)
        N == x_num_pts(xv)
        nn == knn(xv, k, tie)
    IN  IF ~nn.ok THEN [ok |-> FALSE, at |-> "topk"]
        ELSE LET flat == FlatIndex(nn.idx, B, N, k)
                 spirals == Gather(FlatPoints(xv, B, N), flat, B * N, k)
             IN  IF kdtype # "float32" THEN [ok |-> FALSE, at |-> "matmul"]
                 ELSE [ok |-> TRUE, spirals_index |-> flat,
                       permatrix |-> topkmax(RawMatrix(Relative(spirals), kern, pad, K))]

(***************************************************************************)
(* State.                                                                  *)
(*   pc              position of the caller: "ready" after construction,   *)
(*                   "done" after the call returned or raised              *)
(*   self_k, kernel_size, kernels, kernels_dtype, one_padding              *)
(*                   the fields of the PaiIndexMatrix                      *)
(*   x               the point cloud handed to PaiIndexMatrix.forward      *)
(*   raised          "" or the operation that raised                       *)
(*   spirals_index, permatrix   what PaiIndexMatrix.forward returned       *)
(*   arg, ret        the arguments and the result of a call of one of the  *)
(*                   other functions (topkmax, fibonacci_sphere, the       *)
(*                   forward methods at the level of tensor shapes)        *)
(*   net             the configuration of the layer or network under call: *)
(*                   its class, its constructor arguments, its mode        *)
(*                   (nn.Module.training) and the version of its learned   *)
(*                   weights                                               *)
(*   bufs            the buffers of its BatchNorm layers                   *)
(*   calls           the forward calls made so far on the network          *)
(***************************************************************************)
VARIABLES pc, self_k, kernel_size, kernels, kernels_dtype, one_padding,
          x, raised, spirals_index, permatrix, arg, ret, net, bufs, calls

pimVars == <<self_k, kernel_size, kernels, kernels_dtype, one_padding,
             x, raised, spirals_index, permatrix>>

fnVars == <<arg, ret>>

netVars == <<net, bufs, calls>>

vars == <<pc, pimVars, fnVars, netVars>>

None == << >>

\* no PaiIndexMatrix is involved
PimIdle ==
    /\ self_k = 0
    /\ kernel_size = 0
    /\ kernels = None
    /\ kernels_dtype = ""
    /\ one_padding = None
    /\ x = None
    /\ raised = ""
    /\ spirals_index = None
    /\ permatrix = None

FnIdle == arg = None /\ ret = None

\* no layer and no network is involved
NetIdle == net = None /\ bufs = None /\ calls = None

\* PaiIndexMatrix(args, kernel_size) with args.k = k
PimConstructed(k, K) ==
    /\ self_k = k
    /\ kernel_size = K
    /\ kernels = init_kernels(K)
    /\ kernels_dtype = init_kernels_dtype(K)
    /\ one_padding = init_one_padding(k, K)

PimInit ==
    /\ pc = "ready"
    /\ \E k \in 1 .. MaxK, K \in 1 .. MaxKernel : PimConstructed(k, K)
    /\ x = None
    /\ raised = ""
    /\ spirals_index = None
    /\ permatrix = None
    /\ FnIdle
    /\ NetIdle

\* the effect of a call of PaiIndexMatrix.forward(xv) on the outputs
PimCall(xv, tie) ==
    \E r \in {pim_forward(xv, self_k, kernel_size, kernels, kernels_dtype, one_padding, tie)} :
        /\ x' = xv
        /\ raised' = IF r.ok THEN "" ELSE r.at
        /\ spirals_index' = IF r.ok THEN r.spirals_index ELSE None
        /\ permatrix' = IF r.ok THEN r.permatrix ELSE None

\* one call of PaiIndexMatrix.forward(x)
PimForward ==
    /\ pc = "ready"
    /\ \E B \in 1 .. MaxBatch, N \in 1 .. MaxPoints :
          /\ B * N <= MaxTotal
          /\ \E ids \in [Rng(B) -> [Rng(N) -> 0 .. MaxPointId]], tie \in TieOrders(N) :
                PimCall(Cloud(ids, B, N), tie)
    /\ pc' = "done"
    /\ UNCHANGED <<self_k, kernel_size, kernels, kernels_dtype, one_padding>>
    /\ UNCHANGED <<fnVars, netVars>>

Next == PimForward

Spec == PimInit /\ [][Next]_vars

(***************************************************************************)
(* Properties of PaiIndexMatrix.forward (specification Spec).              *)
(***************************************************************************)
Returned == pc = "done" /\ raised = ""
BSize == x_bsize(x)
NumPts == x_num_pts(x)

REq(p, q) == BMul(p.n, q.d) = BMul(q.n, p.d)

RECURSIVE RowSum(_, _, _, _)
\* the sum of pm[q][m][j2] over j2 < j
RowSum(pm, q, m, j) ==
    IF j = 0 THEN RZero ELSE RAdd(RowSum(pm, q, m, j - 1), pm[q][m][j - 1])

ColSum(pm, q, j) == SumDim1(pm, q, j, Cardinality(DOMAIN pm[q]))

\* C1: whenever forward returns, it returns k indices for every point, and
\* the index at neighbour position 0 of point p of batch b is b*num_pts + p,
\* also when two points of a cloud coincide.
C1_SelfIsFirstNeighbor ==
    Returned =>
        /\ DOMAIN spirals_index = Rng(BSize * NumPts * self_k)
        /\ \A b \in Rng(BSize), p \in Rng(NumPts) :
              spirals_index[(b * NumPts + p) * self_k] = b * NumPts + p

\* C3 as stated: every row of the returned matrix (one neighbour, over the
\* kernel anchors) sums to 1, up to the epsilon terms and the mass the 0.1
\* threshold can remove (less than 0.1 per anchor).
C3_RowsSumToOne ==
    Returned =>
        \A q \in DOMAIN permatrix : \A m \in DOMAIN permatrix[q] :
            LET rs == RowSum(permatrix, q, m, kernel_size)
            IN  /\ RLeq(rs, ROne)
                /\ RLeq(Rat((ThreshDen - kernel_size) * (EpsDen \div ThreshDen) - 4, EpsDen), rs)

\* C3 amended: the normalisation is over the neighbour dimension, so every
\* column of the returned matrix (one kernel anchor, over the k neighbours)
\* sums to at most 1, and column 0 sums to 1 up to the epsilon terms.
C3_ColumnsSumToAtMostOne ==
    Returned =>
        \A q \in DOMAIN permatrix :
            /\ \A j \in Rng(kernel_size) : RLeq(ColSum(permatrix, q, j), ROne)
            /\ RLeq(Rat(EpsDen - 2, EpsDen), ColSum(permatrix, q, 0))

\* a returned matrix with a row of total mass above 1
C3_Witness ==
    /\ Returned
    /\ \E q \in DOMAIN permatrix : \E m \in DOMAIN permatrix[q] :
          RLess(ROne, RowSum(permatrix, q, m, kernel_size))

\* C4: whenever forward returns, entry (0,0) of every point's matrix is
\* non-zero and within 2e-6 of 1, whatever the coordinates are.
C4_SelfRoutedToAnchor0 ==
    Returned =>
        \A q \in DOMAIN permatrix :
            /\ ~RIsZero(permatrix[q][0][0])
            /\ RLeq(Rat(EpsDen - 2, EpsDen), permatrix[q][0][0])
            /\ RLeq(permatrix[q][0][0], ROne)
            /\ REq(permatrix[q][0][0], permatrix[0][0][0])

\* a returned matrix of a cloud of distinct points in which another
\* neighbour is routed to another anchor
C4_Witness ==
    /\ Returned
    /\ self_k >= 2
    /\ \E q \in DOMAIN permatrix : \E m \in 1 .. (self_k - 1), j \in 1 .. (kernel_size - 1) :
          /\ ~RIsZero(permatrix[q][m][j])
          /\ ~RIsZero(permatrix[q][0][0])

\* C10: with fewer points than k the call raises in topk and returns
\* nothing: no index and no matrix is produced.
C10_TooFewPointsRaises ==
    (pc = "done" /\ NumPts < self_k) =>
        /\ raised = "topk"
        /\ spirals_index = None
        /\ permatrix = None

C10_Witness == pc = "done" /\ BSize = 2 /\ NumPts < self_k /\ raised = "topk"

(***************************************************************************)
(* PaiIndexMatrix.topkmax as a function of an arbitrary non-negative       *)
(* (1, k, kernel_size) tensor with integer entries (SpecTopkmax).          *)
(***************************************************************************)
TkShapes == { s \in (1 .. MaxK) \X (1 .. MaxKernel) : s[1] * s[2] <= MaxCells }

\* the (1, k, K) tensor with the integer entries e
TkInput(e, k, K) == [q \in Rng(1) |-> [m \in Rng(k) |-> [j \in Rng(K) |-> Rat(e[m][j], 1)]]]

TkInit ==
    /\ pc = "ready"
    /\ PimIdle
    /\ \E s \in TkShapes : \E e \in [Rng(s[1]) -> [Rng(s[2]) -> 0 .. MaxEntry]] :
          arg = TkInput(e, s[1], s[2])
    /\ ret = None
    /\ NetIdle

TkCall ==
    /\ pc = "ready"
    /\ ret' = topkmax(arg)
    /\ pc' = "done"
    /\ UNCHANGED <<arg, pimVars, netVars>>

SpecTopkmax == TkInit /\ [][TkCall]_vars

\* C2: every non-zero entry of the result of topkmax is >= 0.1 and <= 1,
\* and every entry that is 0 in the argument is 0 in the result.
C2_RetainedInRange ==
    pc = "done" =>
        \A m \in DOMAIN ret[0] : \A j \in DOMAIN ret[0][m] :
            /\ ~RIsZero(ret[0][m][j]) => (RLeq(Thresh, ret[0][m][j]) /\ RLeq(ret[0][m][j], ROne))
            /\ RIsZero(arg[0][m][j]) => RIsZero(ret[0][m][j])

\* a result in which one positive entry was pruned, one was retained below
\* 1 and one zero entry stayed zero
C2_Witness ==
    /\ pc = "done"
    /\ \E m \in DOMAIN ret[0] : \E j \in DOMAIN ret[0][m] :
          ~RIsZero(arg[0][m][j]) /\ RIsZero(ret[0][m][j])
    /\ \E m \in DOMAIN ret[0] : \E j \in DOMAIN ret[0][m] :
          ~RIsZero(ret[0][m][j]) /\ RLess(ret[0][m][j], ROne)
    /\ \E m \in DOMAIN ret[0] : \E j \in DOMAIN ret[0][m] :
          RIsZero(arg[0][m][j])

(***************************************************************************)
(* fibonacci_sphere called twice with the same samples (SpecFib).  arg is  *)
(* samples; ret is the list of the calls made, each with its randomize     *)
(* flag and the points it returned.                                        *)
(***************************************************************************)
RandomDraws == { (i * FScale) \div (MaxDraw + 1) : i \in 0 .. MaxDraw }

FibInit ==
    /\ pc = "ready"
    /\ PimIdle
    /\ arg \in 1 .. MaxSamples
    /\ ret = << >>
    /\ NetIdle

FibCall ==
    /\ pc = "ready"
    /\ \E randomize \in BOOLEAN, u \in RandomDraws :
          ret' = Append(ret, [randomize |-> randomize,
                              points |-> fibonacci_sphere(arg, randomize, u)])
    /\ pc' = IF Len(ret) = 1 THEN "done" ELSE "ready"
    /\ UNCHANGED <<arg, pimVars, netVars>>

SpecFib == FibInit /\ [][FibCall]_vars

\* C5: a call with randomize=False returns exactly samples points of which
\* the first is the origin, and two such calls return the same list.
C5_DeterministicWithOrigin ==
    /\ \A i \in DOMAIN ret :
          ~ret[i].randomize =>
              /\ Len(ret[i].points) = arg
              /\ ret[i].points[1] = <<0, 0, 0>>
    /\ \A i, j \in DOMAIN ret :
          (~ret[i].randomize /\ ~ret[j].randomize) => ret[i].points = ret[j].points

\* two calls with randomize=False returned a list of at least three points
C5_Witness ==
    /\ pc = "done"
    /\ arg >= 3
    /\ ~ret[1].randomize
    /\ ~ret[2].randomize
    /\ Len(ret[2].points) = arg

(***************************************************************************)
(* The layers at the level of tensor shapes.  A forward pass threads a     *)
(* record st through its steps:                                            *)
(*   ok, at    whether a step raised, and which                            *)
(*   shape     the shape of the current tensor                             *)
(*   data      what the current tensor was computed from (the input and    *)
(*             the version of the weights)                                 *)
(*   norm      the statistics each BatchNorm passed normalised with        *)
(*   mask      the mask each Dropout passed applied                        *)
(*   bufs      the buffers of the BatchNorm layers                         *)
(* A step that follows a raise does nothing.                               *)
(***************************************************************************)
St0(shape, data, buffers) ==
    [ok |-> TRUE, at |-> "", shape |-> shape, data |-> data,
     norm |-> << >>, mask |-> << >>, bufs |-> buffers]

Raise(st, at) == [st EXCEPT !.ok = FALSE, !.at = at]

RECURSIVE Prod(_)
Prod(s) == IF s = << >> THEN 1 ELSE Head(s) * Prod(Tail(s))

\* a freshly constructed BatchNorm: no batch tracked, initial running stats
BnFresh == [num_batches_tracked |-> 0, running |-> << >>]

\* size[0] * prod(size[2:]), the number of values a BatchNorm sees per channel
ValuesPerChannel(shape) == shape[1] * Prod(SubSeq(shape, 3, Len(shape)))

\* mutant: the running statistics are tracked in evaluation mode too
bn_tracks_always(training) == TRUE

\* a BatchNorm tracks its running statistics in training mode only
bn_tracks(training) == training

\* nn.BatchNorm1d / nn.BatchNorm2d (num_features) applied to the tensor: in
\* training mode the batch counter is incremented before the input is
\* verified to hold more than one value per channel, the batch statistics
\* normalise and are folded into the running statistics; in evaluation mode
\* the running statistics normalise and nothing is written.
BatchNorm(st, layer, num_features, dims, training) ==
    IF ~st.ok THEN st
    ELSE IF Len(st.shape) \notin dims THEN Raise(st, layer)
    ELSE IF bn_tracks(training)
    THEN LET counted == [st EXCEPT !.bufs[layer].num_batches_tracked = @ + 1]
         IN  IF ValuesPerChannel(st.shape) = 1 THEN Raise(counted, layer)
             ELSE IF st.shape[2] # num_features THEN Raise(counted, layer)
             ELSE [counted EXCEPT !.bufs[layer].running = Append(@, st.data),
                                  !.norm = Append(@, [src |-> "batch", stats |-> << >>])]
    ELSE IF st.shape[2] # num_features THEN Raise(st, layer)
    ELSE [st EXCEPT !.norm = Append(@, [src |-> "running",
                                        stats |-> st.bufs[layer].running])]

\* nn.Linear(in_features, out_features) on the last dimension
Linear(st, layer, in_features, out_features) ==
    IF ~st.ok THEN st
    ELSE IF st.shape[Len(st.shape)] # in_features THEN Raise(st, layer)
    ELSE [st EXCEPT !.shape[Len(st.shape)] = out_features]

\* the shape matmul gives the batch dimensions n and p: 0 when they do not
\* broadcast
matmul_batch(n, p) ==
    IF n = p THEN n ELSE IF p = 1 THEN n ELSE IF n = 1 THEN p ELSE 0

\* mutant: the permute before the normalisation is left out
PaiConv_out_shape_nopermute(bsize, num_pts, out_c) == <<bsize, num_pts, out_c>>

\* the result of .view(bsize,num_pts,self.out_c) and .permute(0, 2, 1)
PaiConv_out_shape(bsize, num_pts, out_c) == <<bsize, out_c, num_pts>>

\* PaiConv(in_c, out_c, k, K).forward(feature, spirals_index, permatrix) on
\* the feature st.shape, an index of idx.len entries that are all in range
\* or not (idx.inrange) and a matrix of the shape pm
PaiConv_forward(st, layer, idx, pm, in_c, out_c, k, K, training) ==
    IF ~st.ok THEN st
    ELSE IF Len(st.shape) # 3 THEN Raise(st, "size")
    ELSE LET bsize == st.shape[1]
             feats == st.shape[2]
             num_pts == st.shape[3]
             batch == matmul_batch(bsize * num_pts, pm[1])
         IN  IF ~idx.inrange THEN Raise(st, "index")
             ELSE IF idx.len * feats # bsize * num_pts * k * feats THEN Raise(st, "view")
             ELSE IF pm[2] # k \/ batch = 0 THEN Raise(st, "matmul")
             ELSE IF batch * feats * pm[3] # bsize * num_pts * feats * K THEN Raise(st, "view")
             ELSE IF feats * K # in_c * K THEN Raise(st, "conv")
             ELSE BatchNorm([st EXCEPT !.shape = PaiConv_out_shape(bsize, num_pts, out_c)],
                            layer, out_c, {2, 3}, training)

\* what a forward pass hands back: the shape and the dependencies of the
\* tensor it returns, or the step that raised
Outcome(st) ==
    IF st.ok
    THEN [ok |-> TRUE, at |-> "", shape |-> st.shape,
          value |-> [data |-> st.data, norm |-> st.norm, mask |-> st.mask]]
    ELSE [ok |-> FALSE, at |-> st.at, shape |-> None, value |-> None]

(***************************************************************************)
(* One PaiConv layer called once (SpecConv).                               *)
(***************************************************************************)
ConvInit ==
    /\ pc = "ready"
    /\ PimIdle
    /\ FnIdle
    /\ net \in [cls : {"PaiConv"}, in_c : 1 .. MaxChan, out_c : 1 .. MaxChan,
                k : 1 .. MaxK, kernel_size : 1 .. MaxKernel, training : BOOLEAN]
    /\ bufs = [l \in {"bn"} |-> BnFresh]
    /\ calls = None

\* the effect of self.forward(a.feature, a.spirals_index, a.permatrix)
ConvCall(a) ==
    \E st \in {PaiConv_forward(St0(a.feature, << >>, bufs), "bn", a.spirals_index,
                               a.permatrix, net.in_c, net.out_c, net.k,
                               net.kernel_size, net.training)} :
        /\ arg' = a
        /\ ret' = Outcome(st)
        /\ bufs' = st.bufs

ConvForward ==
    /\ pc = "ready"
    /\ \E b \in 1 .. MaxBatch, n \in 1 .. MaxPoints, f \in 1 .. MaxChan,
          kk \in 1 .. MaxK, inrange \in BOOLEAN, k2 \in 1 .. MaxK, K2 \in 1 .. MaxKernel :
            /\ b * n <= MaxTotal
            /\ \E p \in {b * n, 1} :
                  ConvCall([feature |-> <<b, f, n>>,
                            spirals_index |-> [len |-> b * n * kk, inrange |-> inrange],
                            permatrix |-> <<p, k2, K2>>])
    /\ pc' = "done"
    /\ UNCHANGED <<pimVars, net, calls>>

SpecConv == ConvInit /\ [][ConvForward]_vars

\* the call was made with the arguments the claim is about
ConvArgsFit ==
    /\ pc = "done"
    /\ arg.feature[2] = net.in_c
    /\ arg.spirals_index = [len |-> arg.feature[1] * arg.feature[3] * net.k, inrange |-> TRUE]
    /\ arg.permatrix = <<arg.feature[1] * arg.feature[3], net.k, net.kernel_size>>

ConvSingleValue == arg.feature[1] * arg.feature[3] = 1

\* C6 as stated: for every feature tensor (batch, inC, numPoints), index
\* with k entries per point and matrix (batch*numPoints, k, kernelSize),
\* forward returns a tensor of shape (batch, outC, numPoints).
C6_ShapeAlways ==
    ConvArgsFit =>
        /\ ret.ok
        /\ ret.shape = <<arg.feature[1], net.out_c, arg.feature[3]>>

\* C6 amended: forward returns a tensor of shape (batch, outC, numPoints)
\* whenever the layer is in evaluation mode or batch*numPoints > 1; in
\* training mode with batch*numPoints = 1 its normalisation raises.
C6_ShapeUnlessSingleValueInTraining ==
    ConvArgsFit =>
        IF net.training /\ ConvSingleValue
        THEN ~ret.ok /\ ret.at = "bn"
        ELSE /\ ret.ok
             /\ ret.shape = <<arg.feature[1], net.out_c, arg.feature[3]>>

\* a training-mode call on two clouds of several points that returned, with
\* different channel counts on both sides
C6_Witness ==
    /\ ConvArgsFit
    /\ ret.ok
    /\ net.training
    /\ arg.feature[1] = 2
    /\ arg.feature[3] = 2
    /\ net.in_c # net.out_c
    /\ net.k >= 2
    /\ bufs["bn"].num_batches_tracked = 1

(***************************************************************************)
(* The network assemblers PaiNet, DGCNN and PointNet at the level of       *)
(* tensor shapes and of what the returned tensor depends on.               *)
(***************************************************************************)
num_kernel == 16

output_channels == 40

\* args.dropout, in percent
DropoutRates == {0, 50}

\* two of the masks a Dropout layer can draw
Masks == {"mask_a", "mask_b"}

\* the mask of a Dropout layer that is not active
NoMask == "none"

\* the devices the model and its input can live on
Devices == {"cpu", "cuda"}

\* the BatchNorm layers of a network
BnLayers(cls) ==
    IF cls = "PaiNet"
    THEN {"conv1.bn", "conv2.bn", "conv3.bn", "conv4.bn", "bn5", "bn6", "bn7"}
    ELSE {"bn1", "bn2", "bn3", "bn4", "bn5", "bn6", "bn7"}

\* nn.Conv1d / nn.Conv2d (in_channels, out_channels, kernel_size=1) on a
\* tensor of dims dimensions
Conv(st, layer, in_channels, out_channels, dims) ==
    IF ~st.ok THEN st
    ELSE IF Len(st.shape) # dims \/ st.shape[2] # in_channels THEN Raise(st, layer)
    ELSE [st EXCEPT !.shape[2] = out_channels]

\* mutant: Dropout draws a mask in evaluation mode too
dropout_active_always(training, p) == p > 0

\* a Dropout layer draws a mask in training mode, unless its rate is 0
dropout_active(training, p) == training /\ p > 0

\* what a Dropout layer can draw in one call
Draws(training, p) == IF dropout_active(training, p) THEN Masks ELSE {NoMask}

\* nn.Dropout(p): applies the mask m it draws when active, else the identity
Dropout(st, p, training, m) ==
    IF ~st.ok THEN st
    ELSE [st EXCEPT !.mask = Append(@, IF dropout_active(training, p) THEN m ELSE NoMask)]

\* x.max(dim=-1, keepdim=False)[0]
MaxLast(st) ==
    IF ~st.ok THEN st ELSE [st EXCEPT !.shape = SubSeq(@, 1, Len(@) - 1)]

\* torch.cat((x1, x2, x3, x4), dim=1) of the results of four successive steps
Cat4(s1, s2, s3, s4) ==
    IF ~s4.ok THEN s4
    ELSE [s4 EXCEPT !.shape[2] = s1.shape[2] + s2.shape[2] + s3.shape[2] + s4.shape[2]]

\* F.adaptive_max_pool1d(x, 1) and F.adaptive_avg_pool1d(x, 1)
Pool(st) ==
    IF ~st.ok THEN st ELSE [st EXCEPT !.shape[Len(st.shape)] = 1]

\* .view(batch_size, -1)
ViewRows(st, batch_size) ==
    IF ~st.ok THEN st
    ELSE IF Prod(st.shape) % batch_size # 0 THEN Raise(st, "view")
    ELSE [st EXCEPT !.shape = <<batch_size, Prod(st.shape) \div batch_size>>]

\* .squeeze(): every dimension of size 1 is removed
Squeeze(st) ==
    IF ~st.ok THEN st
    ELSE [st EXCEPT !.shape = SelectSeq(st.shape, LAMBDA d : d # 1)]

\* torch.cat((x1, x2), 1) of two tensors of the shape of st
Cat2(st) ==
    IF ~st.ok THEN st
    ELSE IF Len(st.shape) < 2 THEN Raise(st, "cat")
    ELSE [st EXCEPT !.shape[2] = 2 * @]

\* linear1, bn6, dp1, linear2, bn7, dp2, linear3: the head of all three
Classifier(st, emb_dims, p, training, m1, m2) ==
    LET l1 == BatchNorm(Linear(st, "linear1", emb_dims * 2, 512), "bn6", 512, {2, 3}, training)
        l2 == BatchNorm(Linear(Dropout(l1, p, training, m1), "linear2", 512, 256),
                        "bn7", 256, {2, 3}, training)
    IN  Linear(Dropout(l2, p, training, m2), "linear3", 256, output_channels)

\* PaiIndexMatrix(args, K).forward(x) on the shape of x
pim_forward_shape(st, k, K) ==
    IF ~st.ok THEN st
    ELSE IF Len(st.shape) # 3 THEN Raise(st, "size")
    ELSE IF k > st.shape[3] THEN Raise(st, "topk")
    ELSE IF st.shape[2] # Feats \/ init_kernels_dtype(K) # "float32" THEN Raise(st, "matmul")
    ELSE st

\* the index PaiIndexMatrix.forward returns for x of this shape
pim_index(shape, k) == [len |-> shape[1] * shape[3] * k, inrange |-> TRUE]

\* the shape of the matrix PaiIndexMatrix.forward returns
pim_matrix_shape(shape, k, K) == <<shape[1] * shape[3], k, K>>

\* PaiNet(args).forward(x)
PaiNet_forward(st, k, emb_dims, p, training, m1, m2) ==
    LET batch_size == st.shape[1]
        idx == pim_index(st.shape, k)
        pm == pim_matrix_shape(st.shape, k, num_kernel)
        s0 == pim_forward_shape(st, k, num_kernel)
        s1 == PaiConv_forward(s0, "conv1.bn", idx, pm, 3, 64, k, num_kernel, training)
        s2 == PaiConv_forward(s1, "conv2.bn", idx, pm, 64, 64, k, num_kernel, training)
        s3 == PaiConv_forward(s2, "conv3.bn", idx, pm, 64, 128, k, num_kernel, training)
        s4 == PaiConv_forward(s3, "conv4.bn", idx, pm, 128, 256, k, num_kernel, training)
        s5 == BatchNorm(Conv(Cat4(s1, s2, s3, s4), "conv5", 512, emb_dims, 3),
                        "bn5", emb_dims, {2, 3}, training)
    IN  Classifier(Cat2(ViewRows(Pool(s5), batch_size)), emb_dims, p, training, m1, m2)

\* get_graph_feature(x, k) with idx=None
get_graph_feature(st, k, device) ==
    IF ~st.ok THEN st
    ELSE IF Len(st.shape) < 3 THEN Raise(st, "size")
    ELSE LET batch_size == st.shape[1]
             num_points == st.shape[3]
             num_dims == Prod(st.shape) \div (batch_size * num_points)
         IN  IF k > num_points THEN Raise(st, "topk")
             ELSE IF device # "cuda" THEN Raise(st, "device")
             ELSE [st EXCEPT !.shape = <<batch_size, 2 * num_dims, num_points, k>>]

\* DGCNN(args).forward(x)
DGCNN_forward(st, k, emb_dims, p, training, device, m1, m2) ==
    LET batch_size == st.shape[1]
        s1 == MaxLast(BatchNorm(Conv(get_graph_feature(st, k, device), "conv1", 6, 64, 4),
                                "bn1", 64, {4}, training))
        s2 == MaxLast(BatchNorm(Conv(get_graph_feature(s1, k, device), "conv2", 64 * 2, 64, 4),
                                "bn2", 64, {4}, training))
        s3 == MaxLast(BatchNorm(Conv(get_graph_feature(s2, k, device), "conv3", 64 * 2, 128, 4),
                                "bn3", 128, {4}, training))
        s4 == MaxLast(BatchNorm(Conv(get_graph_feature(s3, k, device), "conv4", 128 * 2, 256, 4),
                                "bn4", 256, {4}, training))
        s5 == BatchNorm(Conv(Cat4(s1, s2, s3, s4), "conv5", 512, emb_dims, 3),
                        "bn5", emb_dims, {2, 3}, training)
    IN  Classifier(Cat2(ViewRows(Pool(s5), batch_size)), emb_dims, p, training, m1, m2)

\* PointNet(args).forward(x)
PointNet_forward(st, emb_dims, p, training, m1, m2) ==
    LET s1 == BatchNorm(Conv(st, "conv1", 3, 64, 3), "bn1", 64, {2, 3}, training)
        s2 == BatchNorm(Conv(s1, "conv2", 64, 64, 3), "bn2", 64, {2, 3}, training)
        s3 == BatchNorm(Conv(s2, "conv3", 64, 64, 3), "bn3", 64, {2, 3}, training)
        s4 == BatchNorm(Conv(s3, "conv4", 64, 128, 3), "bn4", 128, {2, 3}, training)
        s5 == BatchNorm(Conv(s4, "conv5", 128, emb_dims, 3), "bn5", emb_dims, {2, 3}, training)
    IN  Classifier(Cat2(Squeeze(Pool(s5))), emb_dims, p, training, m1, m2)

\* model.forward(x) of the network nt with the buffers buffers
net_forward(nt, buffers, xv, m1, m2) ==
    LET st == St0(xv, [x |-> xv, weights |-> nt.weights], buffers)
    IN  CASE nt.cls = "PaiNet" ->
               PaiNet_forward(st, nt.k, nt.emb_dims, nt.dropout, nt.training, m1, m2)
          [] nt.cls = "DGCNN" ->
               DGCNN_forward(st, nt.k, nt.emb_dims, nt.dropout, nt.training, nt.device, m1, m2)
          [] nt.cls = "PointNet" ->
               PointNet_forward(st, nt.emb_dims, nt.dropout, nt.training, m1, m2)

(***************************************************************************)
(* A network under call.  pc counts the forward calls still to come:       *)
(* "ready3", "ready2", "ready", "done".                                    *)
(***************************************************************************)
Ready == {"ready3", "ready2", "ready"}

\* cls(args) constructed on a device, in training mode as nn.Module is
NetConstructed(cls, k, emb_dims, dropout, device) ==
    /\ net = [cls |-> cls, k |-> k, emb_dims |-> emb_dims, dropout |-> dropout,
              device |-> device, training |-> TRUE, weights |-> 0]
    /\ bufs = [l \in BnLayers(cls) |-> BnFresh]
    /\ calls = << >>
    /\ IF cls = "PaiNet" THEN PimConstructed(k, num_kernel)
       ELSE /\ self_k = 0
            /\ kernel_size = 0
            /\ kernels = None
            /\ kernels_dtype = ""
            /\ one_padding = None
    /\ x = None
    /\ raised = ""
    /\ spirals_index = None
    /\ permatrix = None
    /\ FnIdle

\* the effect of model(xv) when the Dropout layers draw m1 and m2
NetCall(xv, m1, m2) ==
    \E st \in {net_forward(net, bufs, xv, m1, m2)} :
        /\ bufs' = st.bufs
        /\ calls' = Append(calls, [x |-> xv, training |-> net.training,
                                   weights |-> net.weights, out |-> Outcome(st)])

\* one call of model.forward(x) on a batch of shape (B, 3, N)
Forward ==
    /\ pc \in Ready
    /\ \E B \in 1 .. MaxBatch, N \in 1 .. MaxPoints,
          m1 \in Draws(net.training, net.dropout), m2 \in Draws(net.training, net.dropout) :
          /\ B * N <= MaxTotal
          /\ NetCall(<<B, 3, N>>, m1, m2)
    /\ pc' = CASE pc = "ready3" -> "ready2"
                [] pc = "ready2" -> "ready"
                [] pc = "ready" -> "done"
    /\ UNCHANGED <<pimVars, fnVars, net>>

\* model.train() and model.eval()
SetTraining ==
    /\ pc \in Ready
    /\ net' = [net EXCEPT !.training = ~@]
    /\ UNCHANGED <<pc, pimVars, fnVars, bufs, calls>>

\* a step of the external optimizer, computed from a forward call: the
\* learned weights change (steps in a row without a call between them
\* count as one)
OptimizerStep ==
    /\ pc \in Ready
    /\ net.weights < Len(calls)
    /\ net' = [net EXCEPT !.weights = @ + 1]
    /\ UNCHANGED <<pc, pimVars, fnVars, bufs, calls>>

(***************************************************************************)
(* Each of the three networks, in either mode, called once (SpecNets).     *)
(***************************************************************************)
NetsInit ==
    /\ pc = "ready"
    /\ \E cls \in {"PaiNet", "DGCNN", "PointNet"}, k \in 1 .. MaxK, emb_dims \in 1 .. MaxChan,
          dropout \in DropoutRates, device \in Devices :
            NetConstructed(cls, k, emb_dims, dropout, device)

NetsNext == Forward \/ SetTraining

SpecNets == NetsInit /\ [][NetsNext]_vars

\* C7: every call of PaiNet, DGCNN or PointNet on a batch of shape
\* (batch, 3, numPoints) with batch >= 1 and numPoints >= k returns logits
\* of shape (batch, numClasses), also when batch = 1.
C7_LogitsShape ==
    \A i \in DOMAIN calls :
        (calls[i].x[1] >= 1 /\ calls[i].x[3] >= net.k) =>
            /\ calls[i].out.ok
            /\ calls[i].out.shape = <<calls[i].x[1], output_channels>>

(***************************************************************************)
(* A PaiNet called three times, with mode switches and optimizer steps     *)
(* before and between the calls (SpecNet).                                 *)
(***************************************************************************)
NetInit ==
    /\ pc = "ready3"
    /\ \E k \in 1 .. MaxK, emb_dims \in 1 .. MaxChan, dropout \in DropoutRates,
          device \in Devices :
            NetConstructed("PaiNet", k, emb_dims, dropout, device)

NetNext == Forward \/ SetTraining \/ OptimizerStep

SpecNet == NetInit /\ [][NetNext]_vars

\* the state the model holds: learned weights and biases (by version), the
\* normalisation statistics, the KernelAnchors and the self-anchor bias
ModelState == <<net.weights, bufs, kernels, kernels_dtype, one_padding>>

\* C8 as stated: a forward call, in training or evaluation mode, leaves
\* every piece of state held by the model as it was.
C8_ForwardWritesNothing ==
    [][calls' # calls => ModelState' = ModelState]_vars

\* C8 amended: a forward call never writes the weights, the KernelAnchors
\* or the self-anchor bias, and in evaluation mode it writes nothing; in
\* training mode it writes the buffers of the normalisation layers, and
\* only those.  The weights change only in a step that is no forward call.
C8_ForwardWritesOnlyTrainingStatistics ==
    [][/\ calls' # calls =>
            /\ net' = net
            /\ <<kernels, kernels_dtype, one_padding>>' = <<kernels, kernels_dtype, one_padding>>
            /\ ~net.training => bufs' = bufs
       /\ net'.weights # net.weights => calls' = calls /\ bufs' = bufs]_vars

\* a training-mode call that returned and wrote the statistics of every
\* normalisation layer, followed by an evaluation-mode call that returned
C8_Witness ==
    /\ Len(calls) = 2
    /\ calls[1].training /\ calls[1].out.ok
    /\ ~calls[2].training /\ calls[2].out.ok
    /\ \A l \in DOMAIN bufs :
          bufs[l].num_batches_tracked = 1 /\ Len(bufs[l].running) = 1

\* call i and the next call were made on the identical input with
\* identical parameters and the model in the same mode
TwiceTheSame(i) ==
    /\ calls[i].x = calls[i + 1].x
    /\ calls[i].weights = calls[i + 1].weights
    /\ calls[i].training = calls[i + 1].training

\* both calls returned the same logits, or both raised in the same step
SameOutput(i) == calls[i].out = calls[i + 1].out

\* C9 as stated: two calls of PaiNet.forward in a row on the identical
\* input with identical parameters yield identical output, in training
\* mode as in evaluation mode.
C9_TwiceIdentical ==
    \A i \in 1 .. (Len(calls) - 1) : TwiceTheSame(i) => SameOutput(i)

\* C9 amended: they yield identical output when the model is in evaluation
\* mode, or when the dropout rate is 0; in training mode with a positive
\* dropout rate each call draws its own masks.
C9_TwiceIdenticalInEval ==
    \A i \in 1 .. (Len(calls) - 1) :
        (TwiceTheSame(i) /\ (~calls[i].training \/ net.dropout = 0)) => SameOutput(i)

\* after a training-mode call that wrote the running statistics, two
\* evaluation-mode calls of a model with a positive dropout rate returned
C9_Witness ==
    /\ Len(calls) = 3
    /\ calls[1].training /\ calls[1].out.ok
    /\ TwiceTheSame(2)
    /\ ~calls[2].training
    /\ net.dropout > 0
    /\ calls[2].out.ok
    /\ calls[3].out.ok
    /\ calls[3].out.value.norm[1].stats # << >>

(***************************************************************************)
(* One PaiConvDG layer called once (SpecConvDG).                           *)
(***************************************************************************)
\* PaiConvDG(in_c, out_c, k, K).forward(feature, spirals_index, permatrix)
\* on the feature st.shape, an index of idx.len entries that are all in
\* range or not (idx.inrange) and a matrix of the shape pm.  The product
\* (bsize*num_pts, feats, K') is viewed as (bsize, num_pts, self.k, -1),
\* and self.conv is a Conv2d of in_c*2 input channels.
PaiConvDG_forward(st, layer, idx, pm, in_c, out_c, k, K, training) ==
    IF ~st.ok THEN st
    ELSE IF Len(st.shape) # 3 THEN Raise(st, "size")
    ELSE LET bsize == st.shape[1]
             feats == st.shape[2]
             num_pts == st.shape[3]
             batch == matmul_batch(bsize * num_pts, pm[1])
             numel == batch * feats * pm[3]
         IN  IF ~idx.inrange THEN Raise(st, "index")
             ELSE IF idx.len * feats # bsize * num_pts * k * feats THEN Raise(st, "view")
             ELSE IF pm[2] # k \/ batch = 0 THEN Raise(st, "matmul")
             ELSE IF numel % (bsize * num_pts * k) # 0 THEN Raise(st, "view")
             ELSE LET viewed == [st EXCEPT !.shape =
                                    <<bsize, numel \div (bsize * num_pts * k), num_pts, k>>]
                  IN  BatchNorm(MaxLast(Conv(viewed, "conv", in_c * 2, out_c, 4)),
                                layer, out_c, {2, 3}, training)

ConvDGInit ==
    /\ pc = "ready"
    /\ PimIdle
    /\ FnIdle
    /\ net \in [cls : {"PaiConvDG"}, in_c : 1 .. MaxChan, out_c : 1 .. MaxChan,
                k : 1 .. MaxK, kernel_size : 1 .. MaxKernel, training : BOOLEAN]
    /\ bufs = [l \in {"bn"} |-> BnFresh]
    /\ calls = None

\* the effect of self.forward(a.feature, a.spirals_index, a.permatrix)
ConvDGCall(a) ==
    \E st \in {PaiConvDG_forward(St0(a.feature, << >>, bufs), "bn", a.spirals_index,
                                 a.permatrix, net.in_c, net.out_c, net.k,
                                 net.kernel_size, net.training)} :
        /\ arg' = a
        /\ ret' = Outcome(st)
        /\ bufs' = st.bufs

ConvDGForward ==
    /\ pc = "ready"
    /\ \E b \in 1 .. MaxBatch, n \in 1 .. MaxPoints, f \in 1 .. MaxChan,
          kk \in 1 .. MaxK, inrange \in BOOLEAN, k2 \in 1 .. MaxK, K2 \in 1 .. MaxKernel :
            /\ b * n <= MaxTotal
            /\ \E p \in {b * n, 1} :
                  ConvDGCall([feature |-> <<b, f, n>>,
                              spirals_index |-> [len |-> b * n * kk, inrange |-> inrange],
                              permatrix |-> <<p, k2, K2>>])
    /\ pc' = "done"
    /\ UNCHANGED <<pimVars, net, calls>>

SpecConvDG == ConvDGInit /\ [][ConvDGForward]_vars

\* what PaiConv(in_c, out_c, k, kernel_size) in the same mode returns for
\* the arguments of the call
PaiConvOutcome ==
    Outcome(PaiConv_forward(St0(arg.feature, << >>, [l \in {"bn"} |-> BnFresh]), "bn",
                            arg.spirals_index, arg.permatrix, net.in_c, net.out_c,
                            net.k, net.kernel_size, net.training))

\* C11: PaiConvDG is interchangeable with PaiConv: for every feature tensor
\* (batch, inC, numPoints), index with k entries per point and matrix
\* (batch*numPoints, k, kernelSize), for any k and kernelSize, wherever
\* PaiConv.forward returns, PaiConvDG.forward returns too, a tensor of the
\* shape (batch, outC, numPoints).
C11_InterchangeableWithPaiConv ==
    (ConvArgsFit /\ PaiConvOutcome.ok) =>
        /\ ret.ok
        /\ ret.shape = <<arg.feature[1], net.out_c, arg.feature[3]>>
        /\ ret.shape = PaiConvOutcome.shape

(***************************************************************************)
(* The flattened neighbour index, as PaiIndexMatrix.forward and as         *)
(* get_graph_feature compute it (SpecIndex).  After get_graph_feature, pc  *)
(* is "indexed", arg holds its arguments and ret the index or the step     *)
(* that raised.                                                            *)
(***************************************************************************)
\* idx of get_graph_feature(x, k) with idx=None, up to idx.view(-1)
graph_index(xv, k, tie, device) ==
    LET nn == knn(xv, k, tie)
    IN  IF ~nn.ok THEN [ok |-> FALSE, at |-> "topk", idx |-> None]
        ELSE IF device # "cuda" THEN [ok |-> FALSE, at |-> "device", idx |-> None]
        ELSE [ok |-> TRUE, at |-> "",
              idx |-> FlatIndex(nn.idx, x_bsize(xv), x_num_pts(xv), k)]

\* one call of get_graph_feature(x, k) on a point cloud
GraphIndex ==
    /\ pc = "ready"
    /\ \E B \in 1 .. MaxBatch, N \in 1 .. MaxPoints, k \in 1 .. MaxK, device \in Devices :
          /\ B * N <= MaxTotal
          /\ \E ids \in [Rng(B) -> [Rng(N) -> 0 .. MaxPointId]], tie \in TieOrders(N) :
                /\ arg' = [x |-> Cloud(ids, B, N), k |-> k, device |-> device]
                /\ ret' = graph_index(Cloud(ids, B, N), k, tie, device)
    /\ pc' = "indexed"
    /\ UNCHANGED <<pimVars, netVars>>

IndexNext == PimForward \/ GraphIndex

SpecIndex == PimInit /\ [][IndexNext]_vars

\* every entry of the flattened index of a point of batch element b lies in
\* [b*N, (b+1)*N)
IndexInBatch(flat, B, N, k) ==
    /\ DOMAIN flat = Rng(B * N * k)
    /\ \A f \in DOMAIN flat :
          /\ (f \div (N * k)) * N <= flat[f]
          /\ flat[f] < (f \div (N * k) + 1) * N

\* C12: every flattened neighbour index produced for a point of batch
\* element b, by PaiIndexMatrix.forward and by get_graph_feature, lies in
\* [b*numPoints, (b+1)*numPoints), whenever k <= numPoints.
C12_IndexStaysInBatch ==
    /\ Returned => IndexInBatch(spirals_index, BSize, NumPts, self_k)
    /\ (pc = "done" /\ self_k <= NumPts /\ kernels_dtype = "float32") => raised = ""
    /\ (pc = "indexed" /\ ret.ok) =>
          IndexInBatch(ret.idx, x_bsize(arg.x), x_num_pts(arg.x), arg.k)
    /\ (pc = "indexed" /\ arg.k <= x_num_pts(arg.x) /\ arg.device = "cuda") => ret.ok

\* an index of two clouds in which a point of the second cloud has another
\* point of that cloud as a neighbour
C12_Witness ==
    /\ Returned
    /\ BSize = 2
    /\ self_k >= 2
    /\ \E f \in DOMAIN spirals_index :
          f \div (NumPts * self_k) = 1 /\ spirals_index[f] # f \div self_k

=============================================================================
